---- MODULE Spec2Model ----
(***************************************************************************)
(* Email open tracker (src/server.py): a Flask application over one SQLite *)
(* database.  Every request handler opens its own connection (get_db),     *)
(* runs its statements and closes it.  The python sqlite3 module opens a   *)
(* transaction implicitly before the first INSERT/DELETE of a connection   *)
(* and keeps it open until commit(); SELECTs outside a transaction read    *)
(* the committed database.  Foreign keys are declared in the schema but    *)
(* never enforced (no PRAGMA foreign_keys).                                *)
(*                                                                         *)
(* store : the committed database (what every other connection reads)      *)
(* wdb   : the working copy of the connection that holds the write lock    *)
(*         (equal to store when nobody writes)                             *)
(* writer: the request that holds the write lock, or None                  *)
(* procs : the requests being served, one record per server thread/worker  *)
(* nreq  : the number of requests accepted so far (bounds the behaviours)   *)
(***************************************************************************)
EXTENDS Integers, FiniteSets, Sequences, TLC

VARIABLES store, wdb, writer, procs, nreq

vars == <<store, wdb, writer, procs, nreq>>

\* ------------------------------------------------------------------ bounds
\* number of requests the server accepts in one behaviour
MaxRequests == 4

Procs == {"p1", "p2"}
None == "none"

\* uuid4().hex[:12] and uuid4().hex[:10]: random tokens, any value may come out.
EmailIds == {"e1", "e2"}
LinkIds == {"l1", "l2"}

\* request inputs
Viewers == {"10.0.0.1"}
EmailInputs ==
    { [recipient |-> "", subject |-> "Hi"],
      [recipient |-> "a@x.com", subject |-> ""],
      [recipient |-> "a@x.com", subject |-> "Hi"],
      [recipient |-> "b@x.com", subject |-> "Hello"] }
LinkInputs ==
    { [url |-> "", label |-> ""],
      [url |-> "https://x.com", label |-> ""],
      [url |-> "https://y.com", label |-> "cta"] }
\* email_id values a create-link request may carry ("" = field missing)
LinkEmailIds == EmailIds \cup {""}

\* ------------------------------------------------------------------ schema
\* init_db: four empty tables; sqlite_sequence (oseq, cseq) backs AUTOINCREMENT.
EmptyDb ==
    [emails |-> {}, links |-> {}, opens |-> {}, clicks |-> {},
     oseq |-> 0, cseq |-> 0]

\* SELECT * FROM emails WHERE id = ?   (the set of matching rows; the primary
\* key makes it at most one, fetchone() gives the row or None)
SelectEmail(db, id) == {e \in db.emails : e.id = id}

\* SELECT * FROM links WHERE id = ?
SelectLink(db, id) == {l \in db.links : l.id = id}

\* INSERT INTO emails (id, recipient, subject)
InsertEmail(db, id, recipient, subject) ==
    [db EXCEPT !.emails = @ \cup
        {[id |-> id, recipient |-> recipient, subject |-> subject]}]

\* INSERT INTO links (id, email_id, original_url, label)
InsertLink(db, id, email_id, url, label) ==
    [db EXCEPT !.links = @ \cup
        {[id |-> id, email_id |-> email_id, original_url |-> url, label |-> label]}]

\* INSERT INTO opens (email_id, ip_address, user_agent, method)
InsertOpen(db, email_id, viewer, method) ==
    [db EXCEPT !.opens = @ \cup
        {[id |-> db.oseq + 1, email_id |-> email_id, viewer |-> viewer,
          method |-> method]},
               !.oseq = @ + 1]

\* INSERT INTO clicks (link_id, email_id, ip_address, user_agent)
InsertClick(db, link_id, email_id, viewer) ==
    [db EXCEPT !.clicks = @ \cup
        {[id |-> db.cseq + 1, link_id |-> link_id, email_id |-> email_id,
          viewer |-> viewer]},
               !.cseq = @ + 1]

\* DELETE FROM clicks WHERE email_id = ?
DeleteClicks(db, email_id) ==
    [db EXCEPT !.clicks = {c \in @ : c.email_id # email_id}]

\* (mutant) the opens of a deleted email are kept
DeleteOpensForgotten(db, email_id) == db

\* DELETE FROM opens WHERE email_id = ?
DeleteOpens(db, email_id) ==
    [db EXCEPT !.opens = {o \in @ : o.email_id # email_id}]

\* (mutant) the links of a deleted email are kept
DeleteLinksForgotten(db, email_id) == db

\* DELETE FROM links WHERE email_id = ?
DeleteLinks(db, email_id) ==
    [db EXCEPT !.links = {l \in @ : l.email_id # email_id}]

\* DELETE FROM emails WHERE id = ?
DeleteEmails(db, email_id) ==
    [db EXCEPT !.emails = {e \in @ : e.id # email_id}]

\* ------------------------------------------------------------- responses
NoResp == [status |-> 0, kind |-> "none"]

\* send_file(PIXEL, image/gif) with the no-cache headers
PixelResponse ==
    [status |-> 200, kind |-> "pixel", body |-> "GIF89a-1x1",
     cache_control |-> "no-store, no-cache, must-revalidate, max-age=0",
     pragma |-> "no-cache", expires |-> "0"]

\* abort(404)
NotFound == [status |-> 404, kind |-> "abort"]

\* redirect(original_url)
Redirect(url) == [status |-> 302, kind |-> "redirect", location |-> url]

\* jsonify({"error": msg}), code
JsonError(code, msg) == [status |-> code, kind |-> "error", error |-> msg]

\* an exception leaving the handler: Flask answers 500
ServerError(exc) == [status |-> 500, kind |-> "exception", error |-> exc]

\* ------------------------------------------------------------- processes
NoRow == [null |-> TRUE]

Idle ==
    [pc |-> "idle", op |-> "none", email_id |-> "", link_id |-> "",
     viewer |-> "", recipient |-> "", subject |-> "", url |-> "", label |-> "",
     row |-> NoRow, opens |-> <<>>, links |-> {}, resp |-> NoResp]

Init ==
    /\ store = EmptyDb
    /\ wdb = EmptyDb
    /\ writer = None
    /\ procs = [p \in Procs |-> Idle]
    /\ nreq = 0

\* the handler returns: its record becomes the response
Done(rec, resp) == [rec EXCEPT !.pc = "done", !.resp = resp]

\* db.commit(): the working copy becomes the committed database
Commit(p) ==
    /\ writer = p
    /\ store' = wdb
    /\ wdb' = wdb
    /\ writer' = None

\* first write statement of a connection: the implicit BEGIN and the write
\* lock, which only one connection can hold
Begin(p, db) ==
    /\ writer = None
    /\ writer' = p
    /\ wdb' = db
    /\ UNCHANGED store

\* a later statement in the open transaction
Write(p, db) ==
    /\ writer = p
    /\ wdb' = db
    /\ UNCHANGED <<store, writer>>

\* a new request is accepted (within the bound of the model)
Accept ==
    /\ nreq < MaxRequests
    /\ nreq' = nreq + 1

\* ----------------------------------------------------------- track_open
\* (mutant) the pixel handler records the open without checking the lookup
track_open_select_unchecked(p, e, v) ==
    /\ procs[p].pc = "idle"
    /\ Accept
    /\ procs' = [procs EXCEPT ![p] =
            [Idle EXCEPT !.op = "track_open", !.email_id = e, !.viewer = v,
                         !.pc = "open_insert"]]
    /\ UNCHANGED <<store, wdb, writer>>

track_open_select(p, e, v) ==
    /\ procs[p].pc = "idle"
    /\ Accept
    /\ LET rec == [Idle EXCEPT !.op = "track_open", !.email_id = e, !.viewer = v]
       IN  IF SelectEmail(store, e) # {}
           THEN procs' = [procs EXCEPT ![p] = [rec EXCEPT !.pc = "open_insert"]]
           ELSE procs' = [procs EXCEPT ![p] = Done(rec, PixelResponse)]
    /\ UNCHANGED <<store, wdb, writer>>

\* (mutant) an open is recorded once per viewer and email
track_open_insert_once_per_viewer(p) ==
    /\ procs[p].pc = "open_insert"
    /\ Begin(p, IF \E o \in store.opens : /\ o.email_id = procs[p].email_id
                                          /\ o.viewer = procs[p].viewer
                THEN store
                ELSE InsertOpen(store, procs[p].email_id, procs[p].viewer, "pixel"))
    /\ procs' = [procs EXCEPT ![p].pc = "open_commit"]
    /\ UNCHANGED nreq

track_open_insert(p) ==
    /\ procs[p].pc = "open_insert"
    /\ Begin(p, InsertOpen(store, procs[p].email_id, procs[p].viewer, "pixel"))
    /\ procs' = [procs EXCEPT ![p].pc = "open_commit"]
    /\ UNCHANGED nreq

track_open_commit(p) ==
    /\ procs[p].pc = "open_commit"
    /\ Commit(p)
    /\ procs' = [procs EXCEPT ![p] = Done(@, PixelResponse)]
    /\ UNCHANGED nreq

\* ---------------------------------------------------------- track_click
\* (mutant) an unknown link id is redirected to the start page
track_click_select_redirects_unknown(p, l, v) ==
    /\ procs[p].pc = "idle"
    /\ Accept
    /\ LET rec == [Idle EXCEPT !.op = "track_click", !.link_id = l, !.viewer = v]
           link == SelectLink(store, l)
       IN  IF link = {}
           THEN procs' = [procs EXCEPT ![p] = Done(rec, Redirect("/"))]
           ELSE procs' = [procs EXCEPT ![p] =
                    [rec EXCEPT !.pc = "click_insert",
                                !.row = CHOOSE r \in link : TRUE]]
    /\ UNCHANGED <<store, wdb, writer>>

track_click_select(p, l, v) ==
    /\ procs[p].pc = "idle"
    /\ Accept
    /\ LET rec == [Idle EXCEPT !.op = "track_click", !.link_id = l, !.viewer = v]
           link == SelectLink(store, l)
       IN  IF link = {}
           THEN procs' = [procs EXCEPT ![p] = Done(rec, NotFound)]
           ELSE procs' = [procs EXCEPT ![p] =
                    [rec EXCEPT !.pc = "click_insert",
                                !.row = CHOOSE r \in link : TRUE]]
    /\ UNCHANGED <<store, wdb, writer>>

track_click_insert_click(p) ==
    /\ procs[p].pc = "click_insert"
    /\ Begin(p, InsertClick(store, procs[p].link_id, procs[p].row.email_id,
                            procs[p].viewer))
    /\ procs' = [procs EXCEPT ![p].pc = "click_insert_open"]
    /\ UNCHANGED nreq

\* (mutant) the click is recorded without its companion open
track_click_insert_open_skipped(p) ==
    /\ procs[p].pc = "click_insert_open"
    /\ Write(p, wdb)
    /\ procs' = [procs EXCEPT ![p].pc = "click_commit"]
    /\ UNCHANGED nreq

track_click_insert_open(p) ==
    /\ procs[p].pc = "click_insert_open"
    /\ Write(p, InsertOpen(wdb, procs[p].row.email_id, procs[p].viewer, "link"))
    /\ procs' = [procs EXCEPT ![p].pc = "click_commit"]
    /\ UNCHANGED nreq

track_click_commit(p) ==
    /\ procs[p].pc = "click_commit"
    /\ Commit(p)
    /\ procs' = [procs EXCEPT ![p] = Done(@, Redirect(procs[p].row.original_url))]
    /\ UNCHANGED nreq

\* ------------------------------------------------- create_tracked_email
\* validation, then email_id = uuid.uuid4().hex[:12]
create_tracked_email_request(p, in, id) ==
    /\ procs[p].pc = "idle"
    /\ Accept
    /\ LET rec == [Idle EXCEPT !.op = "create_tracked_email",
                               !.recipient = in.recipient, !.subject = in.subject]
       IN  IF in.recipient = "" \/ in.subject = ""
           THEN procs' = [procs EXCEPT ![p] =
                    Done(rec, JsonError(400, "recipient and subject are required"))]
           ELSE procs' = [procs EXCEPT ![p] =
                    [rec EXCEPT !.pc = "email_insert", !.email_id = id]]
    /\ UNCHANGED <<store, wdb, writer>>

\* (mutant) the insert replaces a row that has the id (INSERT OR REPLACE)
create_tracked_email_insert_or_replace(p) ==
    /\ procs[p].pc = "email_insert"
    /\ Begin(p, InsertEmail(DeleteEmails(store, procs[p].email_id),
                            procs[p].email_id, procs[p].recipient,
                            procs[p].subject))
    /\ procs' = [procs EXCEPT ![p].pc = "email_commit"]
    /\ UNCHANGED nreq

\* INSERT INTO emails: id TEXT PRIMARY KEY rejects a second row with the id
\* (sqlite3.IntegrityError leaves the handler, the connection is dropped)
create_tracked_email_insert(p) ==
    /\ procs[p].pc = "email_insert"
    /\ writer = None
    /\ IF SelectEmail(store, procs[p].email_id) # {}
       THEN /\ procs' = [procs EXCEPT ![p] =
                    Done(@, ServerError("IntegrityError: UNIQUE constraint failed: emails.id"))]
            /\ UNCHANGED <<store, wdb, writer>>
       ELSE /\ Begin(p, InsertEmail(store, procs[p].email_id, procs[p].recipient,
                                    procs[p].subject))
            /\ procs' = [procs EXCEPT ![p].pc = "email_commit"]
    /\ UNCHANGED nreq

create_tracked_email_commit(p) ==
    /\ procs[p].pc = "email_commit"
    /\ Commit(p)
    /\ procs' = [procs EXCEPT ![p] =
            Done(@, [status |-> 200, kind |-> "email", email_id |-> procs[p].email_id,
                     pixel_url |-> <<"/p/", procs[p].email_id, ".gif">>])]
    /\ UNCHANGED nreq

\* -------------------------------------------------- create_tracked_link
\* validation, link_id = uuid.uuid4().hex[:10], then the email lookup
\* (mutant) the link is registered without the email lookup
create_tracked_link_select_unchecked(p, e, in, id) ==
    /\ procs[p].pc = "idle"
    /\ Accept
    /\ LET rec == [Idle EXCEPT !.op = "create_tracked_link", !.email_id = e,
                               !.url = in.url, !.label = in.label]
       IN  IF e = "" \/ in.url = ""
           THEN procs' = [procs EXCEPT ![p] =
                    Done(rec, JsonError(400, "email_id and url are required"))]
           ELSE procs' = [procs EXCEPT ![p] =
                    [rec EXCEPT !.pc = "link_insert", !.link_id = id]]
    /\ UNCHANGED <<store, wdb, writer>>

create_tracked_link_select(p, e, in, id) ==
    /\ procs[p].pc = "idle"
    /\ Accept
    /\ LET rec == [Idle EXCEPT !.op = "create_tracked_link", !.email_id = e,
                               !.url = in.url, !.label = in.label]
       IN  IF e = "" \/ in.url = ""
           THEN procs' = [procs EXCEPT ![p] =
                    Done(rec, JsonError(400, "email_id and url are required"))]
           ELSE IF SelectEmail(store, e) = {}
           THEN procs' = [procs EXCEPT ![p] =
                    Done(rec, JsonError(404, "email not found"))]
           ELSE procs' = [procs EXCEPT ![p] =
                    [rec EXCEPT !.pc = "link_insert", !.link_id = id]]
    /\ UNCHANGED <<store, wdb, writer>>

create_tracked_link_insert(p) ==
    /\ procs[p].pc = "link_insert"
    /\ writer = None
    /\ IF SelectLink(store, procs[p].link_id) # {}
       THEN /\ procs' = [procs EXCEPT ![p] =
                    Done(@, ServerError("IntegrityError: UNIQUE constraint failed: links.id"))]
            /\ UNCHANGED <<store, wdb, writer>>
       ELSE /\ Begin(p, InsertLink(store, procs[p].link_id, procs[p].email_id,
                                   procs[p].url, procs[p].label))
            /\ procs' = [procs EXCEPT ![p].pc = "link_commit"]
    /\ UNCHANGED nreq

create_tracked_link_commit(p) ==
    /\ procs[p].pc = "link_commit"
    /\ Commit(p)
    /\ procs' = [procs EXCEPT ![p] =
            Done(@, [status |-> 200, kind |-> "link", link_id |-> procs[p].link_id,
                     tracked_url |-> <<"/l/", procs[p].link_id>>,
                     original_url |-> procs[p].url])]
    /\ UNCHANGED nreq

\* ---------------------------------------------------------- list_emails
Null == [null |-> TRUE]

\* FROM emails e LEFT JOIN opens o ON e.id = o.email_id
\*               LEFT JOIN clicks c ON e.id = c.email_id
JoinOpens(db) ==
    UNION { LET os == {o \in db.opens : o.email_id = e.id}
            IN  IF os = {} THEN {[e |-> e, o |-> Null]}
                ELSE {[e |-> e, o |-> o] : o \in os}
          : e \in db.emails }

JoinClicks(db) ==
    UNION { LET cs == {c \in db.clicks : c.email_id = r.e.id}
            IN  IF cs = {} THEN {[e |-> r.e, o |-> r.o, c |-> Null]}
                ELSE {[e |-> r.e, o |-> r.o, c |-> c] : c \in cs}
          : r \in JoinOpens(db) }

\* (mutant) COUNT(o.id): every joined row with an open counts
CountOpens(group) == Cardinality({x \in group : x.o # Null})

\* COUNT(DISTINCT o.id) / COUNT(DISTINCT c.id) over one group (NULLs not counted)
CountDistinctOpens(group) == Cardinality({r.o.id : r \in {x \in group : x.o # Null}})
CountDistinctClicks(group) == Cardinality({r.c.id : r \in {x \in group : x.c # Null}})

\* GROUP BY e.id: one result row per email (the ORDER BY is not modelled: the
\* result is the set of its rows)
ListEmails(db) ==
    { LET group == {r \in JoinClicks(db) : r.e.id = id}
          e == (CHOOSE r \in group : TRUE).e
      IN  [id |-> id, recipient |-> e.recipient, subject |-> e.subject,
           open_count |-> CountDistinctOpens(group),
           click_count |-> CountDistinctClicks(group)]
      : id \in {r.e.id : r \in JoinClicks(db)} }

list_emails(p) ==
    /\ procs[p].pc = "idle"
    /\ Accept
    /\ procs' = [procs EXCEPT ![p] =
            Done([Idle EXCEPT !.op = "list_emails"],
                 [status |-> 200, kind |-> "emails", emails |-> ListEmails(store)])]
    /\ UNCHANGED <<store, wdb, writer>>

\* ----------------------------------------------------- get_email_detail
\* rows of S as a list, highest id first (ids grow with the insertion time:
\* ORDER BY opened_at DESC / clicked_at DESC)
RECURSIVE NewestFirst(_)
NewestFirst(S) ==
    IF S = {} THEN <<>>
    ELSE LET m == CHOOSE x \in S : \A y \in S : y.id <= x.id
         IN  <<m>> \o NewestFirst(S \ {m})

\* SELECT * FROM opens WHERE email_id = ? ORDER BY opened_at DESC
DetailOpens(db, email_id) ==
    NewestFirst({o \in db.opens : o.email_id = email_id})

\* SELECT * FROM links WHERE email_id = ? ORDER BY created_at  (as a set)
DetailLinks(db, email_id) == {l \in db.links : l.email_id = email_id}

\* SELECT c.*, l.original_url, l.label FROM clicks c JOIN links l
\*   ON c.link_id = l.id WHERE c.email_id = ? ORDER BY c.clicked_at DESC
DetailClicks(db, email_id) ==
    NewestFirst({ [id |-> c.id, viewer |-> c.viewer,
                   original_url |-> l.original_url, label |-> l.label]
                  : <<c, l>> \in {x \in db.clicks \X db.links :
                                    /\ x[1].link_id = x[2].id
                                    /\ x[1].email_id = email_id} })

get_email_detail_opens(p, e) ==
    /\ procs[p].pc = "idle"
    /\ Accept
    /\ procs' = [procs EXCEPT ![p] =
            [Idle EXCEPT !.op = "get_email_detail", !.pc = "detail_links",
                         !.email_id = e, !.opens = DetailOpens(store, e)]]
    /\ UNCHANGED <<store, wdb, writer>>

get_email_detail_links(p) ==
    /\ procs[p].pc = "detail_links"
    /\ procs' = [procs EXCEPT ![p].pc = "detail_clicks",
                              ![p].links = DetailLinks(store, procs[p].email_id)]
    /\ UNCHANGED <<store, wdb, writer>>
    /\ UNCHANGED nreq

get_email_detail_clicks(p) ==
    /\ procs[p].pc = "detail_clicks"
    /\ procs' = [procs EXCEPT ![p] =
            Done(@, [status |-> 200, kind |-> "detail",
                     opens |-> [i \in DOMAIN procs[p].opens |->
                                  [viewer |-> procs[p].opens[i].viewer,
                                   method |-> procs[p].opens[i].method]],
                     links |-> {[id |-> l.id, original_url |-> l.original_url,
                                 label |-> l.label] : l \in procs[p].links},
                     clicks |-> [i \in DOMAIN DetailClicks(store, procs[p].email_id) |->
                                  [viewer |-> DetailClicks(store, procs[p].email_id)[i].viewer,
                                   original_url |-> DetailClicks(store, procs[p].email_id)[i].original_url,
                                   label |-> DetailClicks(store, procs[p].email_id)[i].label]]])]
    /\ UNCHANGED <<store, wdb, writer>>
    /\ UNCHANGED nreq

\* --------------------------------------------------------- delete_email
delete_email_request(p, e) ==
    /\ procs[p].pc = "idle"
    /\ Accept
    /\ procs' = [procs EXCEPT ![p] =
            [Idle EXCEPT !.op = "delete_email", !.pc = "delete_clicks", !.email_id = e]]
    /\ UNCHANGED <<store, wdb, writer>>

\* (mutant) the first DELETE is committed on its own
delete_email_clicks_autocommit(p) ==
    /\ procs[p].pc = "delete_clicks"
    /\ writer = None
    /\ writer' = p
    /\ wdb' = DeleteClicks(store, procs[p].email_id)
    /\ store' = DeleteClicks(store, procs[p].email_id)
    /\ procs' = [procs EXCEPT ![p].pc = "delete_opens"]
    /\ UNCHANGED nreq

delete_email_clicks(p) ==
    /\ procs[p].pc = "delete_clicks"
    /\ Begin(p, DeleteClicks(store, procs[p].email_id))
    /\ procs' = [procs EXCEPT ![p].pc = "delete_opens"]
    /\ UNCHANGED nreq

delete_email_opens(p) ==
    /\ procs[p].pc = "delete_opens"
    /\ Write(p, DeleteOpens(wdb, procs[p].email_id))
    /\ procs' = [procs EXCEPT ![p].pc = "delete_links"]
    /\ UNCHANGED nreq

delete_email_links(p) ==
    /\ procs[p].pc = "delete_links"
    /\ Write(p, DeleteLinks(wdb, procs[p].email_id))
    /\ procs' = [procs EXCEPT ![p].pc = "delete_emails"]
    /\ UNCHANGED nreq

delete_email_emails(p) ==
    /\ procs[p].pc = "delete_emails"
    /\ Write(p, DeleteEmails(wdb, procs[p].email_id))
    /\ procs' = [procs EXCEPT ![p].pc = "delete_commit"]
    /\ UNCHANGED nreq

delete_email_commit(p) ==
    /\ procs[p].pc = "delete_commit"
    /\ Commit(p)
    /\ procs' = [procs EXCEPT ![p] =
            Done(@, [status |-> 200, kind |-> "deleted", success |-> TRUE])]
    /\ UNCHANGED nreq

\* ------------------------------------------------------------- failures
\* the statements that take the write lock
FirstWrite ==
    {"open_insert", "click_insert", "email_insert", "link_insert", "delete_clicks"}

\* another connection holds the write lock for longer than the connection's
\* busy timeout: sqlite3.OperationalError leaves the handler
database_is_locked(p) ==
    /\ procs[p].pc \in FirstWrite
    /\ writer # None
    /\ writer # p
    /\ procs' = [procs EXCEPT ![p] =
            Done(@, ServerError("OperationalError: database is locked"))]
    /\ UNCHANGED <<store, wdb, writer>>
    /\ UNCHANGED nreq

\* a statement or the commit of an open transaction raises (disk I/O error,
\* disk full): the exception leaves the handler before db.commit(), the
\* connection is dropped and its transaction rolled back
Rollback(p) ==
    /\ writer = p
    /\ writer' = None
    /\ wdb' = store
    /\ UNCHANGED store

store_failure(p) ==
    /\ procs[p].pc \notin FirstWrite
    /\ Rollback(p)
    /\ procs' = [procs EXCEPT ![p] =
            Done(@, ServerError("OperationalError: disk I/O error"))]
    /\ UNCHANGED nreq

\* the response has been sent: the worker is free for the next request
Return(p) ==
    /\ procs[p].pc = "done"
    /\ procs' = [procs EXCEPT ![p] = Idle]
    /\ UNCHANGED <<store, wdb, writer>>
    /\ UNCHANGED nreq

Next ==
    \E p \in Procs :
        \/ \E e \in EmailIds, v \in Viewers : track_open_select(p, e, v)
        \/ track_open_insert(p)
        \/ track_open_commit(p)
        \/ \E l \in LinkIds, v \in Viewers : track_click_select(p, l, v)
        \/ track_click_insert_click(p)
        \/ track_click_insert_open(p)
        \/ track_click_commit(p)
        \/ \E in \in EmailInputs, id \in EmailIds : create_tracked_email_request(p, in, id)
        \/ create_tracked_email_insert(p)
        \/ create_tracked_email_commit(p)
        \/ \E e \in LinkEmailIds, in \in LinkInputs, id \in LinkIds :
              create_tracked_link_select(p, e, in, id)
        \/ create_tracked_link_insert(p)
        \/ create_tracked_link_commit(p)
        \/ list_emails(p)
        \/ \E e \in EmailIds : get_email_detail_opens(p, e)
        \/ get_email_detail_links(p)
        \/ get_email_detail_clicks(p)
        \/ \E e \in EmailIds : delete_email_request(p, e)
        \/ delete_email_clicks(p)
        \/ delete_email_opens(p)
        \/ delete_email_links(p)
        \/ delete_email_emails(p)
        \/ delete_email_commit(p)
        \/ database_is_locked(p)
        \/ store_failure(p)
        \/ Return(p)

Spec == Init /\ [][Next]_vars

\* ===================================================================
\* Properties
\* ===================================================================

\* the committed state as list_emails reports it for email id e
Listed(db, e) == {r \in ListEmails(db) : r.id = e}
OpenCount(db, e) == (CHOOSE r \in Listed(db, e) : TRUE).open_count
ClickCount(db, e) == (CHOOSE r \in Listed(db, e) : TRUE).click_count

\* worker p finishes its request in this step
Finishes(p, op) ==
    /\ procs[p].pc # "done"
    /\ procs'[p].pc = "done"
    /\ procs'[p].op = op

Failed(resp) == resp.status = 500

\* the four tables of a database
Tables(db) == <<db.emails, db.links, db.opens, db.clicks>>

\* C1: a visit to /l/{linkId} whose lookup found the link answers (unless the
\* store fails, when it answers 500) with a redirect to the original_url of
\* the link row it found, and the step that produces the response commits
\* exactly one new Click row (that link, the link's email) and exactly one
\* new Open row (method "link", the link's email) and nothing else; when the
\* owning email is in the emails table, its click_count and open_count as
\* list_emails reports them each grow by exactly 1.
C1_ClickRecordsAndRedirects ==
    [][\A p \in Procs :
        (Finishes(p, "track_click") /\ procs'[p].row # NoRow
            /\ ~Failed(procs'[p].resp)) =>
          LET row == procs'[p].row
              e == row.email_id
              newClicks == store'.clicks \ store.clicks
              newOpens == store'.opens \ store.opens
          IN  /\ row.id = procs'[p].link_id
              /\ procs'[p].resp = Redirect(row.original_url)
              /\ store.clicks \subseteq store'.clicks
              /\ store.opens \subseteq store'.opens
              /\ Cardinality(newClicks) = 1
              /\ \A c \in newClicks : c.link_id = row.id /\ c.email_id = e
              /\ Cardinality(newOpens) = 1
              /\ \A o \in newOpens : o.method = "link" /\ o.email_id = e
              /\ store'.emails = store.emails
              /\ store'.links = store.links
              /\ Listed(store, e) # {} =>
                    /\ Listed(store', e) # {}
                    /\ ClickCount(store', e) = ClickCount(store, e) + 1
                    /\ OpenCount(store', e) = OpenCount(store, e) + 1
    ]_vars

\* a link visit has been answered with the redirect, its link and email are
\* in the store and the email is listed with the click and the open
C1_Witness ==
    \E p \in Procs :
        /\ procs[p].pc = "done"
        /\ procs[p].op = "track_click"
        /\ procs[p].resp = Redirect("https://y.com")
        /\ procs[p].row \in store.links
        /\ Listed(store, procs[p].row.email_id) # {}
        /\ ClickCount(store, procs[p].row.email_id) = 1
        /\ OpenCount(store, procs[p].row.email_id) = 2

\* C2: a pixel request whose lookup found the email appends (unless the store
\* fails) exactly one Open row, with method "pixel", for that email and
\* changes nothing else; when the email is still in the emails table its
\* open_count as list_emails reports it grows by exactly 1, also when the same
\* viewer has already been counted for that email.
C2_PixelCountsEveryHit ==
    [][\A p \in Procs :
        (Finishes(p, "track_open") /\ procs[p].pc # "idle"
            /\ ~Failed(procs'[p].resp)) =>
          LET e == procs'[p].email_id
              newOpens == store'.opens \ store.opens
          IN  /\ store.opens \subseteq store'.opens
              /\ Cardinality(newOpens) = 1
              /\ \A o \in newOpens :
                    /\ o.method = "pixel"
                    /\ o.email_id = e
                    /\ o.viewer = procs'[p].viewer
              /\ store'.emails = store.emails
              /\ store'.links = store.links
              /\ store'.clicks = store.clicks
              /\ Listed(store, e) # {} =>
                    /\ Listed(store', e) # {}
                    /\ OpenCount(store', e) = OpenCount(store, e) + 1
    ]_vars

\* the same viewer has hit the pixel of one listed email twice and both count
C2_Witness ==
    \E p \in Procs :
        /\ procs[p].pc = "done"
        /\ procs[p].op = "track_open"
        /\ procs[p].resp = PixelResponse
        /\ Listed(store, procs[p].email_id) # {}
        /\ OpenCount(store, procs[p].email_id) = 2
        /\ \E o1, o2 \in store.opens :
              /\ o1.id # o2.id
              /\ o1.email_id = procs[p].email_id /\ o2.email_id = procs[p].email_id
              /\ o1.viewer = o2.viewer
              /\ o1.method = "pixel" /\ o2.method = "pixel"

C4_MissingLinkNotFound ==
    [][\A p \in Procs :
        (procs[p].pc = "idle" /\ procs'[p].op = "track_click"
            /\ SelectLink(store, procs'[p].link_id) = {}) =>
          /\ procs'[p].pc = "done"
          /\ procs'[p].resp.status = 404
          /\ procs'[p].resp.kind # "redirect"
          /\ Tables(store') = Tables(store)
    ]_vars

\* a visit to an unknown link id was answered 404 while another link exists
C4_Witness ==
    \E p \in Procs :
        /\ procs[p].pc = "done"
        /\ procs[p].op = "track_click"
        /\ procs[p].resp = NotFound
        /\ SelectLink(store, procs[p].link_id) = {}
        /\ store.links # {}
        /\ store.clicks = {}

\* ids of the rows of a table
Ids(rows) == {r.id : r \in rows}

\* every Link, Open and Click references an existing Email, every Click an
\* existing Link
NoOrphans(db) ==
    /\ \A l \in db.links : l.email_id \in Ids(db.emails)
    /\ \A o \in db.opens : o.email_id \in Ids(db.emails)
    /\ \A c \in db.clicks : c.email_id \in Ids(db.emails) /\ c.link_id \in Ids(db.links)

\* C5: in every committed state of the store, after any interleaving of
\* requests, every Link, Open and Click row references an Email that exists
\* and every Click a Link that exists.
C5_NoOrphanedRows == NoOrphans(store)

\* C6: every response of the detail operation contains, for each Click it
\* returns, the companion Open with method "link": the number of returned
\* clicks never exceeds the number of returned link-method opens.
C6_DetailIsConsistent ==
    \A p \in Procs :
        (procs[p].pc = "done" /\ procs[p].op = "get_email_detail") =>
            Len(procs[p].resp.clicks) <=
                Cardinality({i \in DOMAIN procs[p].resp.opens :
                                procs[p].resp.opens[i].method = "link"})

\* the rows of email id e: the email row and its links, opens and clicks
Rows(db, e) ==
    {<<"email", r>> : r \in {x \in db.emails : x.id = e}}
        \cup {<<"link", r>> : r \in {x \in db.links : x.email_id = e}}
        \cup {<<"open", r>> : r \in {x \in db.opens : x.email_id = e}}
        \cup {<<"click", r>> : r \in {x \in db.clicks : x.email_id = e}}

\* C7: no step of any request, a delete that fails part-way included, takes
\* the committed store from a state with rows of an email to a state where
\* some of these rows are gone and others remain: between two states that
\* other requests can read, the rows of an email are all kept or all removed.
C7_DeleteIsAtomic ==
    [][store' # store => \A e \in EmailIds :
        \/ Rows(store, e) \subseteq Rows(store', e)
        \/ Rows(store', e) = {}
    ]_vars

\* one delete of an email failed after its first statement and left every row
\* in place (email, link, open and click), seen by the other worker's request
C7_Witness ==
    \E p \in Procs, e \in EmailIds :
        /\ procs[p].pc = "done"
        /\ procs[p].op = "delete_email"
        /\ procs[p].email_id = e
        /\ procs[p].resp = ServerError("OperationalError: disk I/O error")
        /\ {r[1] : r \in Rows(store, e)} = {"email", "link", "open", "click"}

\* a request is being served
InProgress(p) == procs[p].pc \notin {"idle", "done"}

\* the request of worker p is for email id e, or for a link of e
Concerns(p, e) ==
    \/ procs[p].email_id = e
    \/ procs[p].row # NoRow /\ procs[p].row.email_id = e

\* no email row e, and get_email_detail(e) returns three empty lists
Gone(db, e) ==
    /\ SelectEmail(db, e) = {}
    /\ DetailOpens(db, e) = <<>>
    /\ DetailLinks(db, e) = {}
    /\ DetailClicks(db, e) = <<>>

\* C8: the step that completes a delete of email id e leaves the store with
\* no email row e and with get_email_detail(e) empty in opens, links and
\* clicks; and from then on, as long as no request for e is being served,
\* every step leaves it so.
C8_DeletedEmailHasNoDetail ==
    [][\A e \in EmailIds :
        /\ (\E p \in Procs : /\ Finishes(p, "delete_email")
                             /\ ~Failed(procs'[p].resp)
                             /\ procs'[p].email_id = e) => Gone(store', e)
        /\ (/\ store' # store
            /\ \A p \in Procs : InProgress(p) => ~Concerns(p, e)
            /\ Gone(store, e)) => Gone(store', e)
    ]_vars

\* a delete of an email that had a link, a click and opens has completed, no
\* request is in progress, and nothing of the email is left
C8_Witness ==
    \E p \in Procs :
        /\ procs[p].pc = "done"
        /\ procs[p].op = "delete_email"
        /\ procs[p].resp.status = 200
        /\ \A q \in Procs : ~InProgress(q)
        /\ Gone(store, procs[p].email_id)
        /\ Rows(store, procs[p].email_id) = {}
        /\ store.cseq = 1
        /\ store.oseq = 1
        /\ nreq = MaxRequests

\* C9: a create-link request with a non-empty email_id and url whose email
\* lookup finds no row is answered 404 in that step, and no table changes.
C9_LinkForMissingEmail ==
    [][\A p \in Procs :
        (/\ procs[p].pc = "idle"
         /\ procs'[p].op = "create_tracked_link"
         /\ procs'[p].email_id # ""
         /\ procs'[p].url # ""
         /\ SelectEmail(store, procs'[p].email_id) = {}) =>
          /\ procs'[p].pc = "done"
          /\ procs'[p].resp = JsonError(404, "email not found")
          /\ Tables(store') = Tables(store)
    ]_vars

\* a create-link request for a missing email was answered 404 while another
\* email exists, and there is no link
C9_Witness ==
    \E p \in Procs :
        /\ procs[p].pc = "done"
        /\ procs[p].op = "create_tracked_link"
        /\ procs[p].resp.status = 404
        /\ procs[p].email_id # ""
        /\ procs[p].url # ""
        /\ SelectEmail(store, procs[p].email_id) = {}
        /\ store.emails # {}
        /\ store.links = {}

\* C10: the step that completes a create-email request leaves the new email
\* listed by list_emails with open_count = 0 and click_count = 0; a listed
\* email stays listed until a delete of it commits; and the two counts of a
\* listed email change only in the step that commits a pixel hit for it or a
\* visit of one of its links.
C10_NewEmailListedWithZeroCounts ==
    [][store' # store => \A e \in EmailIds :
        /\ (\E p \in Procs : /\ Finishes(p, "create_tracked_email")
                             /\ procs'[p].resp.status = 200
                             /\ procs'[p].resp.email_id = e) =>
              /\ Listed(store', e) # {}
              /\ OpenCount(store', e) = 0
              /\ ClickCount(store', e) = 0
        /\ (Listed(store, e) # {} /\ Listed(store', e) = {}) =>
              \E p \in Procs : /\ Finishes(p, "delete_email")
                               /\ procs'[p].email_id = e
        /\ (/\ Listed(store, e) # {}
            /\ Listed(store', e) # {}
            /\ \/ OpenCount(store', e) # OpenCount(store, e)
               \/ ClickCount(store', e) # ClickCount(store, e)) =>
              \E p \in Procs :
                  \/ Finishes(p, "track_open") /\ procs'[p].email_id = e
                  \/ Finishes(p, "track_click") /\ procs'[p].row.email_id = e
    ]_vars

\* the four DELETEs of delete_email applied to a database
DeleteAll(db, e) ==
    DeleteEmails(DeleteLinks(DeleteOpens(DeleteClicks(db, e), e), e), e)

\* C11: a delete that the store lets through reports success; when the id is
\* not in the emails table the step leaves the store unchanged; and a second
\* delete of the same id right after it would leave the store as the first
\* left it.
C11_DeleteIsIdempotent ==
    [][\A p \in Procs :
        (Finishes(p, "delete_email") /\ ~Failed(procs'[p].resp)) =>
          LET e == procs'[p].email_id
          IN  /\ procs'[p].resp = [status |-> 200, kind |-> "deleted", success |-> TRUE]
              /\ SelectEmail(store, e) = {} => store' = store
              /\ DeleteAll(store', e) = store'
    ]_vars

\* C12: a link visit that found its link is answered with the redirect to
\* the link's original_url, also when writing the Click or the Open fails.
C12_RedirectDespiteRecordingFailure ==
    \A p \in Procs :
        (procs[p].pc = "done" /\ procs[p].op = "track_click"
            /\ procs[p].row # NoRow) =>
          procs[p].resp = Redirect(procs[p].row.original_url)

\* C13: every id generated for a new Email (create-email) or a new Link
\* (create-link) is not a primary key of the target table when it is
\* generated.
C13_GeneratedIdIsFresh ==
    [][\A p \in Procs :
        /\ (procs[p].pc = "idle" /\ procs'[p].pc = "email_insert") =>
              procs'[p].email_id \notin Ids(store.emails)
        /\ (procs[p].pc = "idle" /\ procs'[p].pc = "link_insert") =>
              procs'[p].link_id \notin Ids(store.links)
    ]_vars

\* the primary key of a table: no two rows with one id
UniqueIds(rows) == \A r1, r2 \in rows : r1.id = r2.id => r1 = r2

\* C14: when the INSERT of create-email or create-link runs with an id that
\* a committed row of the table has, the request ends with the uniqueness
\* violation (500, never a success carrying the id) and the store is
\* unchanged, so the existing row keeps its recipient/subject or url/label;
\* a create that answers success has added exactly its own row under an id
\* that no row had; a create that does not answer success changes nothing;
\* and no table ever holds two rows with one id.
C14_CollisionFailsAndKeepsRow ==
    [][\A p \in Procs :
        /\ (procs[p].pc = "email_insert" /\ procs'[p].pc # "email_insert"
              /\ procs[p].email_id \in Ids(store.emails)
              /\ writer = None) =>
              /\ procs'[p].pc = "done"
              /\ procs'[p].resp =
                    ServerError("IntegrityError: UNIQUE constraint failed: emails.id")
              /\ store' = store
              /\ wdb' = store
        /\ (procs[p].pc = "link_insert" /\ procs'[p].pc # "link_insert"
              /\ procs[p].link_id \in Ids(store.links)
              /\ writer = None) =>
              /\ procs'[p].pc = "done"
              /\ procs'[p].resp =
                    ServerError("IntegrityError: UNIQUE constraint failed: links.id")
              /\ store' = store
              /\ wdb' = store
        /\ (Finishes(p, "create_tracked_email") /\ procs'[p].resp.status = 200) =>
              /\ procs'[p].resp.email_id = procs[p].email_id
              /\ procs[p].email_id \notin Ids(store.emails)
              /\ store' = InsertEmail(store, procs[p].email_id,
                                      procs[p].recipient, procs[p].subject)
        /\ (Finishes(p, "create_tracked_link") /\ procs'[p].resp.status = 200) =>
              /\ procs'[p].resp.link_id = procs[p].link_id
              /\ procs[p].link_id \notin Ids(store.links)
              /\ store' = InsertLink(store, procs[p].link_id, procs[p].email_id,
                                     procs[p].url, procs[p].label)
        /\ ((Finishes(p, "create_tracked_email") \/ Finishes(p, "create_tracked_link"))
              /\ procs'[p].resp.status # 200) => store' = store
        /\ UniqueIds(store'.emails)
        /\ UniqueIds(store'.links)
    ]_vars

\* two creates drew the same email id: one was answered success, the other
\* the uniqueness violation, and the one row with the id is the first one's
C14_Witness ==
    \E p, q \in Procs :
        /\ procs[p].pc = "done" /\ procs[p].op = "create_tracked_email"
        /\ procs[p].resp.status = 200
        /\ procs[q].pc = "done" /\ procs[q].op = "create_tracked_email"
        /\ procs[q].resp =
              ServerError("IntegrityError: UNIQUE constraint failed: emails.id")
        /\ procs[q].email_id = procs[p].email_id
        /\ procs[q].recipient # procs[p].recipient
        /\ SelectEmail(store, procs[p].email_id) =
              {[id |-> procs[p].email_id, recipient |-> procs[p].recipient,
                subject |-> procs[p].subject]}

\* C15: in every reachable state list_emails has one entry per email row,
\* with open_count the number of Open rows and click_count the number of
\* Click rows whose email_id is that email.
C15_CountsAreRowCounts ==
    /\ {r.id : r \in ListEmails(store)} = Ids(store.emails)
    /\ Cardinality(ListEmails(store)) = Cardinality(store.emails)
    /\ \A r \in ListEmails(store) :
          /\ r.open_count = Cardinality({o \in store.opens : o.email_id = r.id})
          /\ r.click_count = Cardinality({c \in store.clicks : c.email_id = r.id})

\* an email with two opens and two clicks at once is listed with 2 and 2
C15_Witness ==
    \E r \in ListEmails(store) :
        /\ r.open_count = 2
        /\ r.click_count = 2
        /\ Cardinality({o \in store.opens : o.email_id = r.id}) = 2
        /\ Cardinality({c \in store.clicks : c.email_id = r.id}) = 2

\* the committed store pairs every Click with a link-method Open
ClicksPaired(db) ==
    /\ \A e \in EmailIds :
          Cardinality({o \in db.opens : o.email_id = e /\ o.method = "link"})
            = Cardinality({c \in db.clicks : c.email_id = e})
    /\ \A r \in ListEmails(db) : r.open_count >= r.click_count

\* C16: in every committed state and for every email id the number of Open
\* rows with method "link" equals the number of Click rows; every listed
\* email has open_count >= click_count; and the Click a link visit commits
\* carries the email_id of the link row the visit looked up.
C16_LinkOpensMatchClicks ==
    [][store' # store =>
        /\ ClicksPaired(store')
        /\ \A p \in Procs :
              (Finishes(p, "track_click") /\ procs'[p].row # NoRow) =>
                  \A c \in store'.clicks \ store.clicks :
                      /\ c.link_id = procs'[p].row.id
                      /\ c.email_id = procs'[p].row.email_id
    ]_vars

\* after a pixel hit and a link visit a listed email has one click, its
\* link open and a pixel open
C16_Witness ==
    \E r \in ListEmails(store) :
        /\ r.click_count = 1
        /\ r.open_count = 2
        /\ \E o \in store.opens : o.email_id = r.id /\ o.method = "pixel"
        /\ \E o \in store.opens : o.email_id = r.id /\ o.method = "link"
        /\ \E c \in store.clicks : c.email_id = r.id
        /\ nreq = MaxRequests

====
